---------------------------- MODULE Spec2Model ----------------------------
(***************************************************************************)
(* Rendezvous (HRW) hashing, github.com/nspcc-dev/hrw: the distance        *)
(* function, the generic Sort / SortWeighted, the fixed-point              *)
(* SortByWeightU64 / SortByWeightU64Normalized and the uint64 normalizers. *)
(*                                                                         *)
(* Machine words are WordBits wide instead of 64 and a float keeps         *)
(* MantBits significant bits instead of 53: every operation is computed as *)
(* the code computes it (wrapping multiply, xor-shift, wide multiply,      *)
(* round-to-nearest-even), on the narrower word.                           *)
(***************************************************************************)
EXTENDS Integers, Sequences, FiniteSets, TLC

\* width of a machine word of the model (uint64 in the code)
WordBits == 8
\* significant bits of a float of the model (float64: 53)
MantBits == 5
\* longest slice a caller of the generic API passes
MaxLen == 3
\* longest slice a caller of the uint64 API passes
MaxNodes == 2
MaxRule == 4

RECURSIVE Pow2(_)
Pow2(k) == IF k <= 0 THEN 1 ELSE 2 * Pow2(k - 1)

Mod == Pow2(WordBits)
\* math.MaxUint64, ^uint64(0)
MaxUint64 == Mod - 1

RECURSIVE Xor(_, _)
\* x ^ y on machine words
Xor(x, y) ==
    IF x = 0 THEN y
    ELSE IF y = 0 THEN x
    ELSE ((x + y) % 2) + 2 * Xor(x \div 2, y \div 2)

\* acc >> k
Shr(acc, k) == acc \div Pow2(k)

\* the low 16 bits of the mmh3 finalizer multipliers 0xff51afd7ed558ccd and
\* 0xc4ceb9fe1a85ec53; a wrapping multiply only reads the low WordBits of them
MixC1 == 36045
MixC2 == 60499
\* acc >> 33 on a 64-bit word: one more than half the width
MixShift == (WordBits \div 2) + 1

\* acc * c, wrapping
MulWrap(acc, c) == (acc * (c % Mod)) % Mod

\* a plausible slip: the shifted value replaces acc instead of being xored in,
\* which loses the low bits and makes distance many-to-one
distanceMutShiftOnly(x, y) ==
    LET a0 == Xor(x, y)
        a1 == Shr(a0, MixShift)
        a2 == MulWrap(a1, MixC1)
        a3 == Xor(a2, Shr(a2, MixShift))
        a4 == MulWrap(a3, MixC2)
    IN  Xor(a4, Shr(a4, MixShift))

distanceMutMixFirst(x, y) ==
    LET a1 == Xor(x, Shr(x, MixShift))
        a2 == MulWrap(a1, MixC1)
        a3 == Xor(a2, Shr(a2, MixShift))
        a4 == MulWrap(a3, MixC2)
    IN  Xor(Xor(a4, Shr(a4, MixShift)), y)

distance(x, y) ==
    LET a0 == Xor(x, y)
        a1 == Xor(a0, Shr(a0, MixShift))
        a2 == MulWrap(a1, MixC1)
        a3 == Xor(a2, Shr(a2, MixShift))
        a4 == MulWrap(a3, MixC2)
    IN  Xor(a4, Shr(a4, MixShift))

(***************************************************************************)
(* Floating point (the type parameter W of SortWeighted).  A float is      *)
(* NaN, an infinity, or sgn * m * 2^e with m = 0 or                        *)
(* 2^(MantBits-1) <= m < 2^MantBits; the exponent range is not bounded.    *)
(***************************************************************************)
FNaN == [kind |-> "nan", sgn |-> 1, m |-> 0, e |-> 0]
FInf(s) == [kind |-> "inf", sgn |-> s, m |-> 0, e |-> 0]
FZero(s) == [kind |-> "fin", sgn |-> s, m |-> 0, e |-> 0]

RECURSIVE RoundRat(_, _, _, _)
\* the float nearest to s * (n / d) * 2^e, ties to even; n > 0, d > 0
RoundRat(s, n, d, e) ==
    IF n >= d * Pow2(MantBits) THEN RoundRat(s, n, 2 * d, e + 1)
    ELSE IF n < d * Pow2(MantBits - 1) THEN RoundRat(s, 2 * n, d, e - 1)
    ELSE LET q == n \div d
             r == n % d
             up == (2 * r > d) \/ (2 * r = d /\ q % 2 = 1)
             m == IF up THEN q + 1 ELSE q
         IN  IF m = Pow2(MantBits)
             THEN [kind |-> "fin", sgn |-> s, m |-> Pow2(MantBits - 1), e |-> e + 1]
             ELSE [kind |-> "fin", sgn |-> s, m |-> m, e |-> e]

\* a float literal n/d of the source, n >= 0, d > 0
FLit(n, d) == IF n = 0 THEN FZero(1) ELSE RoundRat(1, n, d, 0)

\* W(u): the conversion of an unsigned word to a float
FromUint(u) == IF u = 0 THEN FZero(1) ELSE RoundRat(1, u, 1, 0)

\* a / b
FDiv(a, b) ==
    IF a.kind = "nan" \/ b.kind = "nan" THEN FNaN
    ELSE IF a.kind = "inf"
         THEN IF b.kind = "inf" THEN FNaN ELSE FInf(a.sgn * b.sgn)
    ELSE IF b.kind = "inf" THEN FZero(a.sgn * b.sgn)
    ELSE IF b.m = 0
         THEN IF a.m = 0 THEN FNaN ELSE FInf(a.sgn * b.sgn)
    ELSE IF a.m = 0 THEN FZero(a.sgn * b.sgn)
    ELSE RoundRat(a.sgn * b.sgn, a.m, b.m, a.e - b.e)

\* a + b
FAdd(a, b) ==
    IF a.kind = "nan" \/ b.kind = "nan" THEN FNaN
    ELSE IF a.kind = "inf"
         THEN IF b.kind = "inf" /\ b.sgn # a.sgn THEN FNaN ELSE a
    ELSE IF b.kind = "inf" THEN b
    ELSE IF a.m = 0 THEN (IF b.m = 0 THEN FZero(1) ELSE b)
    ELSE IF b.m = 0 THEN a
    ELSE IF a.e - b.e > MantBits + 2 THEN a
    ELSE IF b.e - a.e > MantBits + 2 THEN b
    ELSE LET e0 == IF a.e < b.e THEN a.e ELSE b.e
             n == a.sgn * a.m * Pow2(a.e - e0) + b.sgn * b.m * Pow2(b.e - e0)
         IN  IF n = 0 THEN FZero(1)
             ELSE IF n > 0 THEN RoundRat(1, n, 1, e0)
             ELSE RoundRat(-1, -n, 1, e0)

RECURSIVE log2Digits(_, _, _)
\* the next k binary digits of log2(n / 2^14) for 2^14 <= n < 2^15, found
\* by squaring; acc holds the digits found so far
log2Digits(n, k, acc) ==
    IF k = 0 THEN acc
    ELSE LET sq == (n * n) \div Pow2(14)
         IN  IF sq >= Pow2(15)
             THEN log2Digits(sq \div 2, k - 1, 2 * acc + 1)
             ELSE log2Digits(sq, k - 1, 2 * acc)

\* math.Log2: the float nearest to the base-2 logarithm of f
MathLog2(f) ==
    IF f.kind = "nan" THEN FNaN
    ELSE IF f.kind = "fin" /\ f.m = 0 THEN FInf(-1)
    ELSE IF f.sgn = -1 THEN FNaN
    ELSE IF f.kind = "inf" THEN FInf(1)
    ELSE LET whole == f.e + MantBits - 1
             frac == log2Digits(f.m * Pow2(15 - MantBits), 8, 0)
             n == whole * Pow2(8) + frac
         IN  IF n = 0 THEN FZero(1)
             ELSE IF n > 0 THEN RoundRat(1, n, Pow2(8), 0)
             ELSE RoundRat(-1, -n, Pow2(8), 0)

\* uint64(f): f truncated toward zero; when f has no uint64 value (NaN, an
\* infinity, below 0, beyond the word) the result is oor, whatever this
\* build's conversion yields
FToUint(f, oor) ==
    IF f.kind # "fin" THEN oor
    ELSE IF f.m = 0 THEN 0
    ELSE IF f.e > WordBits THEN oor
    ELSE LET t == IF f.e >= 0 THEN f.m * Pow2(f.e)
                  ELSE IF -f.e > 2 * MantBits THEN 0
                  ELSE f.m \div Pow2(-f.e)
         IN  IF t = 0 THEN 0
             ELSE IF f.sgn = -1 \/ t > MaxUint64 THEN oor
             ELSE t

\* a * b
FMul(a, b) ==
    IF a.kind = "nan" \/ b.kind = "nan" THEN FNaN
    ELSE IF a.kind = "inf" \/ b.kind = "inf"
         THEN IF (a.kind = "fin" /\ a.m = 0) \/ (b.kind = "fin" /\ b.m = 0)
              THEN FNaN ELSE FInf(a.sgn * b.sgn)
    ELSE IF a.m = 0 \/ b.m = 0 THEN FZero(a.sgn * b.sgn)
    ELSE RoundRat(a.sgn * b.sgn, a.m * b.m, 1, a.e + b.e)

\* a < b for floats that are not NaN and not both zero
FLessOrd(a, b) ==
    LET \* rank: -inf < negative < zero < positive < +inf
        cls(x) == IF x.kind = "inf" THEN 2 * x.sgn
                  ELSE IF x.m = 0 THEN 0 ELSE x.sgn
        \* |a| < |b| for finite nonzero normalised values
        magLess(x, y) == x.e < y.e \/ (x.e = y.e /\ x.m < y.m)
    IN  IF cls(a) # cls(b) THEN cls(a) < cls(b)
        ELSE IF cls(a) = 1 THEN magLess(a, b)
        ELSE IF cls(a) = -1 THEN magLess(b, a)
        ELSE FALSE

\* a < b
FLess(a, b) ==
    IF a.kind = "nan" \/ b.kind = "nan" THEN FALSE ELSE FLessOrd(a, b)

\* a == b (NaN equals nothing, -0 equals +0)
FEq(a, b) ==
    IF a.kind = "nan" \/ b.kind = "nan" THEN FALSE
    ELSE ~FLessOrd(a, b) /\ ~FLessOrd(b, a)

(***************************************************************************)
(* State.  vv, weights, object: the slices and the target a caller of the  *)
(* generic API owns.  uNorm, nodes, uweights, hash, res: the normalizer,   *)
(* the slices, the target and the last returned slice of a caller of the   *)
(* uint64 API.  op: the                                                    *)
(* last call and how it ended.  pre: the caller's arguments as they were   *)
(* when the last call was made.  prev: the call before a SortByWeightU64   *)
(* and what it returned.                                                   *)
(* unstableTies: which of the orders sort.Slice may leave equal elements   *)
(* in this build produces (the library documents no stability).            *)
(* rule: the permutation rule a caller of sortByRuleDirect and             *)
(* sortByRuleInverse holds.  fNorm: the float64 normalizer a caller built   *)
(* from the same parameter as uNorm.  srt: a legacy sorter in the middle   *)
(* of sort.Sort, with the loop positions of the sort.                      *)
(***************************************************************************)
VARIABLES vv, weights, object, uNorm, nodes, uweights, hash, res, op, pre, prev,
          unstableTies, rule, fNorm, srt

vars == <<vv, weights, object, uNorm, nodes, uweights, hash, res, op, pre, prev,
          unstableTies, rule, fNorm, srt>>

\* hashAndValue: an item is its identity hash and a payload the library never reads
Item(h, v) == [hash |-> h, val |-> v]

(***************************************************************************)
(* sliceToSort and sort.Stable                                             *)
(***************************************************************************)
\* sliceToSort[V, W]: isF tells whether W is a float type or uint64
sliceToSort(s, distances, isF) == [s |-> s, distances |-> distances, isF |-> isF]

\* (s *sliceToSort) Len
Len_(s) == Len(s.s)

\* a plausible slip: the comparison reversed
LessMutGreater(s, i, j) ==
    IF s.isF THEN FLess(s.distances[j], s.distances[i])
    ELSE s.distances[j] < s.distances[i]

\* a plausible slip: <= for <, which moves an element past its equals
LessMutLessEq(s, i, j) ==
    IF s.isF THEN ~FLess(s.distances[j], s.distances[i])
    ELSE s.distances[i] <= s.distances[j]

\* (s *sliceToSort) Less; positions are 1-based in the model
Less(s, i, j) ==
    IF s.isF THEN FLess(s.distances[i], s.distances[j])
    ELSE s.distances[i] < s.distances[j]

\* a plausible slip: Swap forgets the distances
SwapMutItemsOnly(s, i, j) ==
    [s EXCEPT !.s = [s.s EXCEPT ![i] = s.s[j], ![j] = s.s[i]]]

\* (s *sliceToSort) Swap
Swap(s, i, j) ==
    [s EXCEPT !.s = [s.s EXCEPT ![i] = s.s[j], ![j] = s.s[i]],
              !.distances = [s.distances EXCEPT ![i] = s.distances[j],
                                                ![j] = s.distances[i]]]

RECURSIVE insertionInner(_, _, _)
\* for j := i; j > a && data.Less(j, j-1); j-- { data.Swap(j, j-1) }
insertionInner(data, j, a) ==
    IF j > a /\ Less(data, j, j - 1)
    THEN insertionInner(Swap(data, j, j - 1), j - 1, a)
    ELSE data

RECURSIVE insertionOuter(_, _, _, _)
\* for i := a + 1; i < b; i++ { ... }
insertionOuter(data, i, a, b) ==
    IF i < b THEN insertionOuter(insertionInner(data, i, a), i + 1, a, b)
    ELSE data

\* sort.Stable on at most 20 elements: one insertion sort of the whole slice
StableSort(data) == insertionOuter(data, 2, 1, Len_(data) + 1)

(***************************************************************************)
(* Generic Sort and SortWeighted                                           *)
(***************************************************************************)
\* a plausible slip: == for != in the loop, which reports weights that all
\* equal the first as not the same
allSameFMutInverted(fs) == \A i \in 1..Len(fs) : ~FEq(fs[i], fs[1])

\* allSameF: no weight differs from the first
allSameF(fs) == \A i \in 1..Len(fs) : FEq(fs[i], fs[1])

\* Sort[V, P Hashable](vv, object): the slice vv is left holding
Sort(vv0, oHash) ==
    LET s == sliceToSort(vv0,
                         [i \in 1..Len(vv0) |-> distance(vv0[i].hash, oHash)],
                         FALSE)
    IN  StableSort(s).s

\* a plausible slip: the length check dropped; with weights that are not all
\* the same the loop then reads weights[i] past the end of a shorter weights
\* slice and the call panics, and a longer weights slice is used in part
SortWeightedMutNoLenCheck(vv0, weights0, oHash) ==
    IF allSameF(weights0) THEN [vv |-> Sort(vv0, oHash), panic |-> FALSE]
    ELSE IF Len(weights0) < Len(vv0) THEN [vv |-> vv0, panic |-> TRUE]
    ELSE LET s == sliceToSort(vv0,
                      [i \in 1..Len(vv0) |->
                          FDiv(FromUint(distance(vv0[i].hash, oHash)), weights0[i])],
                      TRUE)
         IN  [vv |-> StableSort(s).s, panic |-> FALSE]

\* SortWeighted[V, P Hashable, W constraints.Float](vv, weights, object):
\* the slice vv is left holding, and whether the call panicked
SortWeighted(vv0, weights0, oHash) ==
    IF Len(vv0) # Len(weights0) THEN [vv |-> vv0, panic |-> FALSE]
    ELSE IF allSameF(weights0) THEN [vv |-> Sort(vv0, oHash), panic |-> FALSE]
    ELSE LET s == sliceToSort(vv0,
                      [i \in 1..Len(vv0) |->
                          FDiv(FromUint(distance(vv0[i].hash, oHash)), weights0[i])],
                      TRUE)
         IN  [vv |-> StableSort(s).s, panic |-> FALSE]

(***************************************************************************)
(* sort.Slice: an insertion sort for the short slices of the model.  The   *)
(* library does not promise to keep equal elements in order: with          *)
(* unstableTies the build is one that leaves them in the opposite order.   *)
(* less is the closure's table: less[a, b] for the elements a and b.       *)
(***************************************************************************)
Reverse(x) == [i \in 1..Len(x) |-> x[Len(x) + 1 - i]]

RECURSIVE sliceInner(_, _, _, _)
\* for j := i; j > a && less(j, j-1); j-- { swap(j, j-1) }
sliceInner(x, less, j, a) ==
    IF j > a /\ less[x[j], x[j - 1]]
    THEN sliceInner([x EXCEPT ![j] = x[j - 1], ![j - 1] = x[j]], less, j - 1, a)
    ELSE x

RECURSIVE sliceOuter(_, _, _, _, _)
sliceOuter(x, less, i, a, b) ==
    IF i < b THEN sliceOuter(sliceInner(x, less, i, a), less, i + 1, a, b)
    ELSE x

\* sort.Slice(x, less) on at most 12 elements
SliceSort(x, less) ==
    sliceOuter(IF unstableTies THEN Reverse(x) ELSE x, less, 2, 1, Len(x) + 1)

(***************************************************************************)
(* Wide arithmetic and the uint64 normalizers                              *)
(***************************************************************************)
\* a plausible slip: the plain wrapping product, its high word lost
Mul64MutWrapping(a, b) == [hi |-> 0, lo |-> (a * b) % Mod]

\* bits.Mul64: the full two-word product
Mul64(a, b) == [hi |-> (a * b) \div Mod, lo |-> (a * b) % Mod]

\* bits.Div64(hi, lo, y): the quotient, or a panic when y = 0 or y <= hi
Div64(hi, lo, y) ==
    IF y = 0 \/ y <= hi THEN [v |-> 0, panic |-> TRUE]
    ELSE [v |-> (hi * Mod + lo) \div y, panic |-> FALSE]

\* normalizer.Div(a, b): a / b mapped from [0..1] to [0..math.MaxUint64]
Div(a, b) ==
    LET p == Mul64(a, MaxUint64)
    IN  IF p.hi > b THEN [v |-> MaxUint64, panic |-> FALSE]
        ELSE Div64(p.hi, p.lo, b)

\* ToFloat transforms u from [0..math.MaxUint64] to a float in [0..1]
ToFloat(u) == FDiv(FromUint(u), FromUint(MaxUint64))

\* logFactor (2 << 16 for 64-bit words), scaled as the words are
logFactor == 2

\* log2(u) of the normalizer package
log2(u, oor) == FToUint(FMul(MathLog2(FromUint(u)), FromUint(logFactor)), oor)

\* the normalizers NewConstU64, NewMaxU64, NewReverseMinU64, NewSigmoidU64 build
NewConstU64(value) == [kind |-> "const", p |-> value]
NewMaxU64(max) == [kind |-> "max", p |-> max]
NewReverseMinU64(min) == [kind |-> "reverseMin", p |-> min]
NewSigmoidU64(scale) == [kind |-> "sigmoid", p |-> scale]
\* NewLogRatioU64 keeps log2(max); oor is what uint64() of this build yields
\* for a float without a uint64 value
NewLogRatioU64(max, oor) ==
    [kind |-> "logRatio", p |-> log2(max, oor), oor |-> oor]

\* (r *sigmoidU64) Normalize
sigmoidNormalize(scale, w) ==
    LET x == Div(w, scale)
        half == MaxUint64 \div 2
        y == Div(half, (x.v \div 2) + half)
    IN  IF x.panic THEN x
        ELSE IF y.panic THEN y
        ELSE [v |-> MaxUint64 - y.v, panic |-> FALSE]

\* Uint64Norm.Normalize(w): the value, or a panic
Normalize(r, w) ==
    CASE r.kind = "const" -> [v |-> r.p, panic |-> FALSE]
      [] r.kind = "max" ->
            IF r.p = 0 THEN [v |-> 0, panic |-> FALSE] ELSE Div(w, r.p)
      [] r.kind = "reverseMin" ->
            IF w = 0 THEN [v |-> 0, panic |-> FALSE] ELSE Div(r.p, w)
      [] r.kind = "sigmoid" -> sigmoidNormalize(r.p, w)
      [] r.kind = "logRatio" ->
            IF r.p = 0 \/ w = 0 THEN [v |-> 0, panic |-> FALSE]
            ELSE Div(log2(w, r.oor), r.p)

\* the float64 normalizers
NewConstF64(value) == [kind |-> "const", p |-> value]
NewMaxF64(max) == [kind |-> "max", p |-> max]
NewReverseMinF64(min) == [kind |-> "reverseMin", p |-> min]
NewSigmoidF64(scale) == [kind |-> "sigmoid", p |-> scale]
NewLogRatioF64(max) == [kind |-> "logRatio", p |-> MathLog2(max)]

\* FloatNorm.Normalize(w)
NormalizeF(r, w) ==
    CASE r.kind = "const" -> r.p
      [] r.kind = "max" ->
            IF FEq(r.p, FZero(1)) THEN FZero(1) ELSE FDiv(w, r.p)
      [] r.kind = "reverseMin" ->
            IF FEq(w, FZero(1)) THEN FZero(1) ELSE FDiv(r.p, w)
      [] r.kind = "sigmoid" ->
            LET x == FDiv(w, r.p) IN FDiv(x, FAdd(FLit(1, 1), x))
      [] r.kind = "logRatio" ->
            IF FEq(r.p, FZero(1)) \/ FEq(w, FZero(1)) THEN FZero(1)
            ELSE FDiv(MathLog2(w), r.p)

(***************************************************************************)
(* The uint64 API: Sort, SortByWeightU64Normalized, SortByWeightU64        *)
(***************************************************************************)
\* allSame: no node differs from the first
allSame(ns) == \A i \in 1..Len(ns) : ns[i] = ns[1]

\* Sort(nodes []uint64, hash uint64) []uint64: the positions of nodes by
\* ascending distance; positions are 1-based in the model
SortU64(nodes0, hash0) ==
    LET l == Len(nodes0)
        sorted == [i \in 1..l |-> i]
        dist == [i \in 1..l |-> distance(nodes0[i], hash0)]
        less == [a \in 1..l, b \in 1..l |-> dist[a] < dist[b]]
    IN  SliceSort(sorted, less)

\* wiH > wjH || wiH == wjH && wiL > wjL
productLess(wi, wj) == wi.hi > wj.hi \/ (wi.hi = wj.hi /\ wi.lo > wj.lo)

\* SortByWeightU64Normalized(nodes, weights, hash): the slice returned, or a
\* panic; neither argument is written
SortByWeightU64Normalized(nodes0, weights0, hash0) ==
    IF Len(nodes0) # Len(weights0) THEN [res |-> <<>>, panic |-> TRUE]
    ELSE
      LET l == Len(nodes0)
          \* if allSame(nodes) { Sort(nodes, hash) }: the result is dropped
          dropped == IF allSame(nodes0) THEN SortU64(nodes0, hash0) ELSE <<>>
          ind == [i \in 1..l |-> i]
          dist == [i \in 1..l |-> distance(nodes0[i], hash0)]
          prod == [i \in 1..l |-> Mul64(weights0[i], MaxUint64 - dist[i])]
          less == [a \in 1..l, b \in 1..l |-> productLess(prod[a], prod[b])]
          sortedInd == SliceSort(ind, less)
      IN  [res |-> [i \in 1..l |-> nodes0[sortedInd[i]]], panic |-> FALSE]

RECURSIVE normalizeLoop(_, _, _)
\* for i := range weights { weights[i] = norm.Normalize(weights[i]) }: the
\* weights slice as the loop leaves it, and whether Normalize panicked
normalizeLoop(norm, ws, i) ==
    IF i > Len(ws) THEN [weights |-> ws, panic |-> FALSE]
    ELSE LET r == Normalize(norm, ws[i])
         IN  IF r.panic THEN [weights |-> ws, panic |-> TRUE]
             ELSE normalizeLoop(norm, [ws EXCEPT ![i] = r.v], i + 1)

\* SortByWeightU64(norm, nodes, weights, hash): the slice returned, the
\* caller's weights slice after the call, and whether the call panicked
SortByWeightU64(norm, nodes0, weights0, hash0) ==
    LET n == normalizeLoop(norm, weights0, 1)
        r == SortByWeightU64Normalized(nodes0, n.weights, hash0)
    IN  IF n.panic THEN [res |-> <<>>, weights |-> n.weights, panic |-> TRUE]
        ELSE [res |-> r.res, weights |-> n.weights, panic |-> r.panic]

(***************************************************************************)
(* The legacy sorters over float64 weights.  A sorter is the caller's      *)
(* slice (which the swap callback permutes), ind, dist, the weights the    *)
(* less closure reads, and whether a slice index went out of range.        *)
(***************************************************************************)
\* a []uint64 argument that may be nil
NilNodes == [nil |-> TRUE, v |-> <<>>]
SomeNodes(ns) == [nil |-> FALSE, v |-> ns]

\* murmur3.Sum64 of the 8 little-endian bytes of key: the library's hash,
\* stood for by a fixed mixing of the word
Hash(key) == distance(key, MaxUint64)

\* i is the position (from 1) of the element with Go index i - 1
getDistance(byIndex, i, nodes0, h) ==
    IF ~nodes0.nil THEN distance(nodes0.v[i], h)
    ELSE IF byIndex THEN distance((i - 1) % Mod, h)
    ELSE distance(Hash((i - 1) % Mod), h)

newSorter(l, byIndex, nodes0, h, slice, weights0, byWeight) ==
    [slice |-> slice,
     ind |-> [i \in 1..l |-> i],
     dist |-> [i \in 1..l |-> getDistance(byIndex, i, nodes0, h)],
     weights |-> weights0,
     byWeight |-> byWeight,
     panic |-> FALSE]

sorterSwapMutSliceOnly(s, i, j) ==
    [s EXCEPT !.slice = [s.slice EXCEPT ![i] = s.slice[j], ![j] = s.slice[i]]]

\* the swap closure of newSorter: the caller's swapper, then ind
sorterSwap(s, i, j) ==
    [s EXCEPT !.slice = [s.slice EXCEPT ![i] = s.slice[j], ![j] = s.slice[i]],
              !.ind = [s.ind EXCEPT ![i] = s.ind[j], ![j] = s.ind[i]]]

\* weights[ii] or weights[jj] is out of range in the less closure
sorterFault(s, i, j) ==
    s.byWeight /\ (s.ind[i] > Len(s.weights) \/ s.ind[j] > Len(s.weights))

\* the less closure of sortByWeight, or that of sortByDistance
sorterLess(s, i, j) ==
    LET ii == s.ind[i]
        jj == s.ind[j]
    IN  IF s.byWeight
        THEN LET wi == FMul(FromUint(MaxUint64 - s.dist[ii]), s.weights[ii])
                 wj == FMul(FromUint(MaxUint64 - s.dist[jj]), s.weights[jj])
             IN  FLess(wj, wi)
        ELSE s.dist[ii] < s.dist[jj]

RECURSIVE sorterInner(_, _, _)
sorterInner(s, j, a) ==
    IF j <= a THEN s
    ELSE IF sorterFault(s, j, j - 1) THEN [s EXCEPT !.panic = TRUE]
    ELSE IF ~sorterLess(s, j, j - 1) THEN s
    ELSE sorterInner(sorterSwap(s, j, j - 1), j - 1, a)

RECURSIVE sorterOuter(_, _, _, _)
sorterOuter(s, i, a, b) ==
    IF i >= b \/ s.panic THEN s
    ELSE sorterOuter(sorterInner(s, i, a), i + 1, a, b)

RECURSIVE reverseRange(_, _, _)
reverseRange(s, i, j) ==
    IF i >= j THEN s ELSE reverseRange(sorterSwap(s, i, j), i + 1, j - 1)

\* sort.Sort(s): insertion sort; on a build that does not keep ties in
\* order, elements may first be moved past their equals
sortSort(s, unstable) ==
    LET l == Len(s.ind)
        s0 == IF unstable THEN reverseRange(s, 1, l) ELSE s
    IN  sorterOuter(s0, 2, 1, l + 1)

sortByDistance(l, byIndex, nodes0, h, slice, unstable) ==
    sortSort(newSorter(l, byIndex, nodes0, h, slice, <<>>, FALSE), unstable)

allSameF64(fs) == \A i \in 1..Len(fs) : FEq(fs[i], fs[1])

sortByWeight(l, byIndex, nodes0, weights0, h, slice, unstable) ==
    IF allSameF64(weights0)
    THEN sortByDistance(l, byIndex, nodes0, h, slice, unstable)
    ELSE sortSort(newSorter(l, byIndex, nodes0, h, slice, weights0, TRUE),
                  unstable)

\* copy(dst, src): the first min(len) elements of dst overwritten from src
copy(dst, src) ==
    [i \in 1..Len(dst) |-> IF i <= Len(src) THEN src[i] ELSE dst[i]]

\* the returned slice, the caller's nodes afterwards, and whether it panicked
SortByWeight(nodes0, weights0, h, unstable) ==
    LET result == [i \in 1..Len(nodes0) |-> 0]
        nodes1 == copy(nodes0, result)
        s == sortByWeight(Len(nodes0), FALSE, SomeNodes(nodes1), weights0, h,
                          result, unstable)
    IN  [res |-> s.slice, nodes |-> nodes1, panic |-> s.panic]

\* the caller's slice afterwards, and whether it panicked
SortSliceByIndex(slice, h, unstable) ==
    LET s == sortByDistance(Len(slice), TRUE, NilNodes, h, slice, unstable)
    IN  [slice |-> s.slice, panic |-> s.panic]

SortSliceByWeightIndex(slice, weights0, h, unstable) ==
    LET s == sortByWeight(Len(slice), TRUE, NilNodes, weights0, h, slice,
                          unstable)
    IN  [slice |-> s.slice, panic |-> s.panic]

(***************************************************************************)
(* The adapters that rank a slice by the values of its elements.  The      *)
(* interface{} argument is its dynamic type t and, for a slice, its        *)
(* elements v; an element is the word it holds.                            *)
(***************************************************************************)
\* the element types the type switch of prepareRule names, with the length
\* of the key buffer and the width of the value written into it
BuiltinSlices ==
    {"[]int", "[]uint", "[]int8", "[]uint8", "[]int16", "[]uint16",
     "[]int32", "[]uint32", "[]int64", "[]uint64", "[]string"}

keyLen(t) ==
    CASE t \in {"[]int", "[]uint", "[]int32", "[]uint32"} -> 16
      [] t \in {"[]int8", "[]uint8"} -> 1
      [] t \in {"[]int16", "[]uint16"} -> 8
      [] t \in {"[]int64", "[]uint64"} -> 32
      [] OTHER -> 0

keyWidth(t) ==
    CASE t \in {"[]int", "[]uint", "[]int64", "[]uint64"} -> 8
      [] t \in {"[]int32", "[]uint32"} -> 4
      [] t \in {"[]int16", "[]uint16"} -> 2
      [] OTHER -> 1

\* the key bytes of an element, folded into a word for the stand-in Hash
keyOf(t, e) == (e + 8 * keyWidth(t) + keyLen(t)) % Mod

\* reflect.TypeOf(slice).Kind() == reflect.Slice
IsSliceKind(ts) == ts.t # "int"

\* the elements implement Hasher
ElemIsHasher(ts) == ts.t = "[]hashString"

\* the rule, whether it is nil, and whether prepareRule panicked
prepareRule(ts) ==
    IF ~IsSliceKind(ts) THEN [rule |-> <<>>, nil |-> TRUE, panic |-> TRUE]
    ELSE IF Len(ts.v) = 0 THEN [rule |-> <<>>, nil |-> TRUE, panic |-> FALSE]
    ELSE IF ts.t \in BuiltinSlices
         THEN [rule |-> [i \in 1..Len(ts.v) |-> Hash(keyOf(ts.t, ts.v[i]))],
               nil |-> FALSE, panic |-> FALSE]
    ELSE IF ~ElemIsHasher(ts)
         THEN [rule |-> <<>>, nil |-> TRUE, panic |-> TRUE]
    ELSE [rule |-> ts.v, nil |-> FALSE, panic |-> FALSE]

\* the caller's value afterwards, and whether the call panicked
SortSliceByValue(ts, h, unstable) ==
    LET r == prepareRule(ts)
    IN  IF r.panic THEN [slice |-> ts, panic |-> TRUE]
        ELSE IF r.nil THEN [slice |-> ts, panic |-> FALSE]
        ELSE LET s == sortByDistance(Len(r.rule), FALSE, SomeNodes(r.rule),
                                     h, ts.v, unstable)
             IN  [slice |-> [ts EXCEPT !.v = s.slice], panic |-> s.panic]

SortSliceByWeightValue(ts, weights0, h, unstable) ==
    LET r == prepareRule(ts)
    IN  IF r.panic THEN [slice |-> ts, panic |-> TRUE]
        ELSE IF r.nil THEN [slice |-> ts, panic |-> FALSE]
        ELSE LET s == sortByWeight(Len(ts.v), FALSE, SomeNodes(r.rule),
                                   weights0, h, ts.v, unstable)
             IN  [slice |-> [ts EXCEPT !.v = s.slice], panic |-> s.panic]

\* boundaries of valid normalized weights
NormalizedMaxWeight == FLit(1, 1)
NormalizedMinWeight == FZero(1)

\* math.IsNaN
IsNaN(f) == f.kind = "nan"

ValidateWeightsMutNoNaN(weights0) ==
    \E i \in 1..Len(weights0) :
        \/ FLess(NormalizedMaxWeight, weights0[i])
        \/ FLess(weights0[i], NormalizedMinWeight)

\* whether ValidateWeights returns an error
ValidateWeights(weights0) ==
    \E i \in 1..Len(weights0) :
        \/ IsNaN(weights0[i])
        \/ FLess(NormalizedMaxWeight, weights0[i])
        \/ FLess(weights0[i], NormalizedMinWeight)

(***************************************************************************)
(* The callers' inputs                                                     *)
(***************************************************************************)
\* identity hashes of the items a caller ranks, and the target hashes
Hashes == {2, 4, 90}
Targets == {90, 60}
\* the float weights a caller passes: 0.0, 0.2, 1.0
Weights == {FLit(0, 1), FLit(1, 5), FLit(1, 1)}

SeqsUpTo(S, n) == UNION {[1..k -> S] : k \in 0..n}

\* items with the given hashes, each with a payload of its own
ItemsOf(hs) == [i \in 1..Len(hs) |-> Item(hs[i], i)]

\* the raw uint64 weights a caller passes, and the normalizers it builds
RawWeights == {0, 1, 4}
Norms == {NewConstU64(3), NewMaxU64(3), NewReverseMinU64(1), NewSigmoidU64(3)}

NoNorm == [kind |-> "none", p |-> 0]
NoSorter == [i |-> 0, j |-> 0]
NoCall == [name |-> "input", panic |-> FALSE]
NoPrev == [op |-> NoCall, res |-> <<>>]
NoArgs == [vv |-> <<>>, weights |-> <<>>, nodes |-> <<>>, uweights |-> <<>>]
Args == [vv |-> vv, weights |-> weights, nodes |-> nodes, uweights |-> uweights]

\* a caller of the generic API with its slices and target
Init ==
    /\ \E hs \in SeqsUpTo(Hashes, MaxLen) : vv = ItemsOf(hs)
    /\ weights \in SeqsUpTo(Weights, MaxLen)
    /\ object \in Targets
    /\ uNorm = NoNorm
    /\ nodes = <<>> /\ uweights = <<>> /\ hash = 0 /\ res = <<>>
    /\ op = NoCall
    /\ pre = NoArgs
    /\ prev = NoPrev
    /\ unstableTies = FALSE
    /\ rule = <<>>
    /\ fNorm = NoNorm /\ srt = NoSorter

\* hrw.Sort(vv, object)
CallSort ==
    /\ vv' = Sort(vv, object)
    /\ op' = [name |-> "Sort", panic |-> FALSE]
    /\ pre' = Args
    /\ UNCHANGED <<weights, object, uNorm, nodes, uweights, hash, res, prev,
                     unstableTies, rule, fNorm, srt>>

\* hrw.SortWeighted(vv, weights, object)
CallSortWeighted ==
    LET r == SortWeighted(vv, weights, object)
    IN  /\ vv' = r.vv
        /\ op' = [name |-> "SortWeighted", panic |-> r.panic]
        /\ pre' = Args
        /\ UNCHANGED <<weights, object, uNorm, nodes, uweights, hash, res, prev,
                     unstableTies, rule, fNorm, srt>>

Next == CallSort \/ CallSortWeighted

Spec == Init /\ [][Next]_vars

\* a caller of the uint64 API with its normalizer, slices and target, on
\* either build
InitU64 ==
    /\ vv = <<>> /\ weights = <<>> /\ object = 0
    /\ uNorm \in Norms
    /\ nodes \in SeqsUpTo(Hashes, MaxNodes)
    /\ uweights \in SeqsUpTo(RawWeights, MaxNodes)
    /\ hash \in Targets
    /\ res = <<>>
    /\ op = NoCall
    /\ pre = NoArgs
    /\ prev = NoPrev
    /\ unstableTies \in BOOLEAN
    /\ rule = <<>>
    /\ fNorm = NoNorm /\ srt = NoSorter

\* ranking := Sort(nodes, hash)
CallSortU64 ==
    /\ res' = SortU64(nodes, hash)
    /\ op' = [name |-> "SortU64", panic |-> FALSE]
    /\ pre' = Args
    /\ prev' = NoPrev
    /\ UNCHANGED <<vv, weights, object, uNorm, nodes, uweights, hash, unstableTies, rule, fNorm, srt>>

\* ns := SortByWeightU64Normalized(nodes, uweights, hash)
CallSortByWeightU64Normalized ==
    LET r == SortByWeightU64Normalized(nodes, uweights, hash)
    IN  /\ res' = IF r.panic THEN res ELSE r.res
        /\ op' = [name |-> "SortByWeightU64Normalized", panic |-> r.panic]
        /\ pre' = Args
        /\ prev' = NoPrev
        /\ UNCHANGED <<vv, weights, object, uNorm, nodes, uweights, hash, unstableTies, rule, fNorm, srt>>

\* ns := SortByWeightU64(uNorm, nodes, uweights, hash)
CallSortByWeightU64 ==
    LET r == SortByWeightU64(uNorm, nodes, uweights, hash)
    IN  /\ res' = IF r.panic THEN res ELSE r.res
        /\ uweights' = r.weights
        /\ op' = [name |-> "SortByWeightU64", panic |-> r.panic]
        /\ pre' = Args
        /\ prev' = [op |-> op, res |-> res]
        /\ UNCHANGED <<vv, weights, object, uNorm, nodes, hash, unstableTies, rule, fNorm, srt>>

NextU64 == CallSortU64 \/ CallSortByWeightU64Normalized \/ CallSortByWeightU64

SpecU64 == InitU64 /\ [][NextU64]_vars

\* the payloads of a slice a caller of the SortSliceBy... functions holds
Labels(k) == [i \in 1..k |-> i]

\* a caller of the legacy float64 API, holding either a slice to reorder or
\* a list of node hashes, on either build
InitLegacy ==
    /\ \/ (vv \in {Labels(k) : k \in 0..MaxLen} /\ nodes = <<>>)
       \/ (vv = <<>> /\ nodes \in SeqsUpTo(Hashes, MaxNodes))
    /\ weights \in SeqsUpTo(Weights, MaxLen)
    /\ hash \in Targets
    /\ object = 0 /\ uNorm = NoNorm /\ uweights = <<>> /\ res = <<>>
    /\ op = NoCall
    /\ pre = NoArgs
    /\ prev = NoPrev
    /\ unstableTies \in BOOLEAN
    /\ rule = <<>>
    /\ fNorm = NoNorm /\ srt = NoSorter

\* res := SortByWeight(nodes, weights, hash)
CallSortByWeight ==
    LET r == SortByWeight(nodes, weights, hash, unstableTies)
    IN  /\ nodes' = r.nodes
        /\ res' = IF r.panic THEN res ELSE r.res
        /\ op' = [name |-> "SortByWeight", panic |-> r.panic]
        /\ pre' = Args
        /\ UNCHANGED <<vv, weights, object, uNorm, uweights, hash, prev,
                       unstableTies, rule, fNorm, srt>>

\* SortSliceByIndex(vv, hash)
CallSortSliceByIndex ==
    LET r == SortSliceByIndex(vv, hash, unstableTies)
    IN  /\ vv' = r.slice
        /\ op' = [name |-> "SortSliceByIndex", panic |-> r.panic]
        /\ pre' = Args
        /\ UNCHANGED <<weights, object, uNorm, nodes, uweights, hash, res, prev,
                       unstableTies, rule, fNorm, srt>>

\* SortSliceByWeightIndex(vv, weights, hash)
CallSortSliceByWeightIndex ==
    LET r == SortSliceByWeightIndex(vv, weights, hash, unstableTies)
    IN  /\ vv' = r.slice
        /\ op' = [name |-> "SortSliceByWeightIndex", panic |-> r.panic]
        /\ pre' = Args
        /\ UNCHANGED <<weights, object, uNorm, nodes, uweights, hash, res, prev,
                       unstableTies, rule, fNorm, srt>>

NextLegacy ==
    CallSortByWeight \/ CallSortSliceByIndex \/ CallSortSliceByWeightIndex

SpecLegacy == InitLegacy /\ [][NextLegacy]_vars

\* -f
FNeg(f) == [f EXCEPT !.sgn = -1]

\* the float64 weights a caller hands to ValidateWeights: the normalized
\* ones, and 10.0, 1.0625, -0.2 and NaN
OutOfRangeWeights == {FLit(10, 1), FLit(17, 16), FNeg(FLit(1, 5)), FNaN}
AnyWeights == Weights \cup OutOfRangeWeights

\* a caller about to validate its weights
InitValidate ==
    /\ weights \in SeqsUpTo(AnyWeights, MaxLen)
    /\ vv = <<>> /\ nodes = <<>> /\ hash = 0
    /\ object = 0 /\ uNorm = NoNorm /\ uweights = <<>> /\ res = <<>>
    /\ op = NoCall
    /\ pre = NoArgs
    /\ prev = NoPrev
    /\ unstableTies = FALSE
    /\ rule = <<>>
    /\ fNorm = NoNorm /\ srt = NoSorter

\* err := ValidateWeights(weights)
CallValidateWeights ==
    /\ op' = [name |-> "ValidateWeights", panic |-> FALSE,
              err |-> ValidateWeights(weights)]
    /\ pre' = Args
    /\ UNCHANGED <<vv, weights, object, uNorm, nodes, uweights, hash, res, prev,
                   unstableTies, rule, fNorm, srt>>

NextValidate == CallValidateWeights

SpecValidate == InitValidate /\ [][NextValidate]_vars

\* the dynamic types of the values callers hand to SortSliceByValue: the
\* built-in slices, a slice of Hashers, a slice of a named byte type, a
\* named slice type, and a value that is no slice
ValueTypes ==
    BuiltinSlices \cup {"[]hashString", "[]unknown", "Uint32Slice", "int"}
Elems == {1, 2}

\* a caller holding a value to rank by its elements; in this specification
\* vv is the value with its dynamic type
InitValue ==
    /\ \E t \in ValueTypes :
         \/ (t = "int" /\ vv = [t |-> t, v |-> <<>>])
         \/ (t # "int" /\ \E es \in SeqsUpTo(Elems, MaxLen) :
                            vv = [t |-> t, v |-> es])
    /\ weights \in SeqsUpTo(Weights, MaxNodes)
    /\ hash \in Targets
    /\ nodes = <<>>
    /\ object = 0 /\ uNorm = NoNorm /\ uweights = <<>> /\ res = <<>>
    /\ op = NoCall
    /\ pre = NoArgs
    /\ prev = NoPrev
    /\ unstableTies \in BOOLEAN
    /\ rule = <<>>
    /\ fNorm = NoNorm /\ srt = NoSorter

\* SortSliceByValue(vv, hash)
CallSortSliceByValue ==
    LET r == SortSliceByValue(vv, hash, unstableTies)
    IN  /\ vv' = r.slice
        /\ op' = [name |-> "SortSliceByValue", panic |-> r.panic]
        /\ pre' = Args
        /\ UNCHANGED <<weights, object, uNorm, nodes, uweights, hash, res, prev,
                       unstableTies, rule, fNorm, srt>>

\* SortSliceByWeightValue(vv, weights, hash)
CallSortSliceByWeightValue ==
    LET r == SortSliceByWeightValue(vv, weights, hash, unstableTies)
    IN  /\ vv' = r.slice
        /\ op' = [name |-> "SortSliceByWeightValue", panic |-> r.panic]
        /\ pre' = Args
        /\ UNCHANGED <<weights, object, uNorm, nodes, uweights, hash, res, prev,
                       unstableTies, rule, fNorm, srt>>

NextValue == CallSortSliceByValue \/ CallSortSliceByWeightValue

SpecValue == InitValue /\ [][NextValue]_vars

(***************************************************************************)
(* Properties of the generic Sort and SortWeighted                         *)
(***************************************************************************)
\* how many times x occurs in the sequence q
Count(q, x) == Cardinality({i \in 1..Len(q) : q[i] = x})

\* a and b hold the same elements the same number of times
IsPermutationOf(a, b) ==
    /\ Len(a) = Len(b)
    /\ \A i \in 1..Len(b) : Count(a, b[i]) = Count(b, b[i])

\* where the item x stood in the sequence q (items of a caller are distinct)
PosIn(q, x) == CHOOSE i \in 1..Len(q) : q[i] = x

\* q without its k-th element
RemoveAt(q, k) == [i \in 1..(Len(q) - 1) |-> IF i < k THEN q[i] ELSE q[i + 1]]

\* every arrangement of the elements of q
ArrangementsOf(q) ==
    LET n == Len(q)
        perms == {f \in [1..n -> 1..n] : \A i, j \in 1..n : f[i] = f[j] => i = j}
    IN  {[i \in 1..n |-> q[f[i]]] : f \in perms}

Dist(x) == distance(x.hash, object)

SortReturned == op.name = "Sort" /\ ~op.panic
SortWeightedReturned == op.name = "SortWeighted" /\ ~op.panic
SameLengths == Len(pre.vv) = Len(pre.weights)

\* C1: after Sort(vv, object) vv is a permutation of what it held before and
\* the distance to the object is non-decreasing along vv, for every length
C1_SortPermutationAscending ==
    op.name = "Sort" =>
        /\ ~op.panic
        /\ IsPermutationOf(vv, pre.vv)
        /\ \A i, j \in 1..Len(vv) : i < j => Dist(vv[i]) <= Dist(vv[j])

\* a Sort that had to move an item, over items at different distances
C1_Witness ==
    /\ SortReturned
    /\ Len(vv) = MaxLen
    /\ vv # pre.vv
    /\ \E i, j \in 1..Len(vv) : Dist(vv[i]) < Dist(vv[j])

\* C2: Sort is stable: items at equal distance keep the relative order they
\* had in the input
C2_SortStable ==
    SortReturned =>
        \A i, j \in 1..Len(vv) :
            (i < j /\ Dist(vv[i]) = Dist(vv[j]))
                => PosIn(pre.vv, vv[i]) < PosIn(pre.vv, vv[j])

\* a Sort that moved two items of equal distance past a farther one
C2_Witness ==
    /\ SortReturned
    /\ \E i, j \in 1..Len(vv) :
          /\ i < j /\ Dist(vv[i]) = Dist(vv[j])
          /\ \E k \in 1..Len(vv) :
                /\ Dist(vv[k]) > Dist(vv[j])
                /\ PosIn(pre.vv, vv[k]) < PosIn(pre.vv, vv[i])

\* every weight of the call numerically equals every other
WeightsAllEqual(ws) == \A i, j \in 1..Len(ws) : FEq(ws[i], ws[j])

\* C3: with weights of the same length that are all numerically equal (0.0
\* included) SortWeighted leaves vv in the order Sort gives for the same input
C3_UniformWeightsAsSort ==
    (SortWeightedReturned /\ SameLengths /\ WeightsAllEqual(pre.weights))
        => vv = Sort(pre.vv, object)

\* a uniform-weight call whose items differ in distance only below the
\* precision of a float, and which had to reorder them
C3_Witness ==
    /\ SortWeightedReturned /\ SameLengths /\ WeightsAllEqual(pre.weights)
    /\ Len(vv) >= 2
    /\ vv # pre.vv
    /\ \E i, j \in 1..Len(vv) :
          /\ Dist(vv[i]) < Dist(vv[j])
          /\ FromUint(Dist(vv[i])) = FromUint(Dist(vv[j]))

\* the weight the call was given for the item x
WeightOf(x) == pre.weights[PosIn(pre.vv, x)]
\* the score the weighted path computes for the item x, in the float type W
Score(x) == FDiv(FromUint(Dist(x)), WeightOf(x))

WeightsPositive(ws) == \A i \in 1..Len(ws) : FLess(FZero(1), ws[i])

\* the call took the weighted path with positive weights
C4_Case ==
    /\ SortWeightedReturned /\ SameLengths
    /\ WeightsPositive(pre.weights) /\ ~WeightsAllEqual(pre.weights)

\* C4: with positive weights that are not all equal, SortWeighted leaves a
\* permutation of the input in which the score distance / weight (as the
\* code computes it, in the float type W) is non-decreasing, items of equal
\* score in their input order
C4_WeightedAscendingScore ==
    C4_Case =>
        /\ IsPermutationOf(vv, pre.vv)
        /\ \A i, j \in 1..Len(vv) : i < j =>
              /\ ~FLess(Score(vv[j]), Score(vv[i]))
              /\ FEq(Score(vv[i]), Score(vv[j]))
                    => PosIn(pre.vv, vv[i]) < PosIn(pre.vv, vv[j])

\* a weighted call that moved a heavier, farther item ahead of a nearer one
C4_Witness ==
    /\ C4_Case
    /\ vv # pre.vv
    /\ \E i, j \in 1..Len(vv) :
          /\ i < j
          /\ Dist(vv[i]) > Dist(vv[j])
          /\ FLess(Score(vv[i]), Score(vv[j]))

\* C5: with len(vv) # len(weights) SortWeighted returns without fault and
\* leaves vv and weights exactly as given
C5_LengthMismatchNoOp ==
    (op.name = "SortWeighted" /\ ~SameLengths)
        => (~op.panic /\ vv = pre.vv /\ weights = pre.weights)

\* a mismatched call on items that a sort would have reordered, with weights
\* that are not all the same
C5_Witness ==
    /\ op.name = "SortWeighted" /\ ~SameLengths
    /\ Len(pre.weights) < Len(pre.vv)
    /\ ~WeightsAllEqual(pre.weights)
    /\ Sort(pre.vv, object) # pre.vv

DistinctHashes(q) == \A i, j \in 1..Len(q) : q[i].hash = q[j].hash => i = j

\* C8: for items with pairwise distinct identity hashes, Sort gives the same
\* final order whatever order the items were supplied in
C8_SortIndependentOfInputOrder ==
    (SortReturned /\ DistinctHashes(pre.vv))
        => \A q \in ArrangementsOf(pre.vv) : Sort(q, object) = vv

\* a Sort of MaxLen items of distinct hashes that had to reorder them
C8_Witness ==
    /\ SortReturned /\ DistinctHashes(pre.vv)
    /\ Len(pre.vv) = MaxLen
    /\ vv # pre.vv

\* the order SortWeighted gives once the k-th item and its weight are removed
SortedWithout(k) ==
    SortWeighted(RemoveAt(pre.vv, k), RemoveAt(pre.weights, k), object).vv
\* the order the call left, with the item that was k-th in the input deleted
ResultWithout(k) == RemoveAt(vv, PosIn(vv, pre.vv[k]))

\* C9 as claimed: for weights in [0.0, 1.0], 0 included, removing any one item
\* with its weight and then sorting gives the order of sorting the full input
\* and then deleting that item
C9_Original ==
    (SortWeightedReturned /\ SameLengths)
        => \A k \in 1..Len(pre.vv) : SortedWithout(k) = ResultWithout(k)

\* the removal of the k-th weight does not change whether the weights are
\* all equal, so both rankings take the same path
SamePathWithout(k) ==
    WeightsAllEqual(RemoveAt(pre.weights, k)) <=> WeightsAllEqual(pre.weights)

\* C9 amended: for weights in (0.0, 1.0], 0 excluded, removing one item with
\* its weight and then sorting gives the order of sorting the full input and
\* then deleting that item, provided the removal does not change whether the
\* weights are all equal
C9_RemovalKeepsOrder ==
    (SortWeightedReturned /\ SameLengths /\ WeightsPositive(pre.weights))
        => \A k \in 1..Len(pre.vv) :
              SamePathWithout(k) => SortedWithout(k) = ResultWithout(k)

\* a weighted call of MaxLen items with positive weights that reordered them
\* and from which an item can be removed leaving weights that still differ
C9_Witness ==
    /\ SortWeightedReturned /\ SameLengths /\ WeightsPositive(pre.weights)
    /\ Len(pre.vv) = MaxLen
    /\ ~WeightsAllEqual(pre.weights)
    /\ vv # pre.vv
    /\ \E k \in 1..Len(pre.vv) :
          /\ ~WeightsAllEqual(RemoveAt(pre.weights, k))
          /\ RemoveAt(pre.vv, k) # ResultWithout(k)

(***************************************************************************)
(* Properties of the uint64 API                                            *)
(***************************************************************************)
NormalizedReturned == op.name = "SortByWeightU64Normalized" /\ ~op.panic

\* the one-to-one maps of 1..n onto itself
PermsOf(n) == {f \in [1..n -> 1..n] : \A i, j \in 1..n : f[i] = f[j] => i = j}

\* weights[i] * (2^64-1 - distance(nodes[i], hash)), as an unbounded integer
ExactProduct(i) == pre.uweights[i] * (MaxUint64 - distance(pre.nodes[i], hash))

\* C6: SortByWeightU64Normalized returns, for slices of equal length, a
\* sequence of that length that lists each position of nodes once, by
\* non-increasing exact product weights[i] * (2^64-1 - distance(nodes[i], hash))
\* (never wrapped), and leaves nodes and weights as they were
C6_NormalizedByExactProduct ==
    (op.name = "SortByWeightU64Normalized" /\ Len(pre.nodes) = Len(pre.uweights))
        => /\ ~op.panic
           /\ Len(res) = Len(pre.nodes)
           /\ \E f \in PermsOf(Len(res)) :
                 /\ \A k \in 1..Len(res) : res[k] = pre.nodes[f[k]]
                 /\ \A k, l \in 1..Len(res) :
                       k < l => ExactProduct(f[k]) >= ExactProduct(f[l])
           /\ nodes = pre.nodes
           /\ uweights = pre.uweights

\* a call that put a node first whose product is the larger one only in its
\* high word
C6_Witness ==
    /\ NormalizedReturned
    /\ Len(res) = MaxNodes
    /\ res # pre.nodes
    /\ \E i, j \in 1..Len(pre.nodes) :
          /\ ExactProduct(i) > ExactProduct(j)
          /\ ExactProduct(i) % Mod < ExactProduct(j) % Mod

UWeightsAllEqual == \A i, j \in 1..Len(pre.uweights) : pre.uweights[i] = pre.uweights[j]

\* C7: with all-equal weights (any common value, 0 included) the fixed-point
\* ranking is the unweighted one: SortByWeightU64Normalized(nodes, weights,
\* hash)[k] = nodes[Sort(nodes, hash)[k]] for every k; stated of the build
\* whose sort.Slice keeps equal elements in order
C7_UniformWeightsAsSort ==
    (NormalizedReturned /\ UWeightsAllEqual /\ ~unstableTies)
        => \A k \in 1..Len(res) : res[k] = pre.nodes[SortU64(pre.nodes, hash)[k]]

\* C10: two successive calls of SortByWeightU64 with the same normalizer,
\* the same nodes slice, the same weights slice and the same hash return the
\* same ranking
C10_RepeatedCallSameRanking ==
    (/\ op.name = "SortByWeightU64" /\ ~op.panic
     /\ prev.op.name = "SortByWeightU64" /\ ~prev.op.panic)
        => res = prev.res

\* the last call was given slices of different lengths
U64LengthMismatch == Len(pre.nodes) # Len(pre.uweights)

\* C11: with len(nodes) # len(weights) SortByWeightU64 and
\* SortByWeightU64Normalized fail at once and apply nothing: after the
\* failure nodes and weights hold exactly the values the caller passed
C11_MismatchFailsUnchanged ==
    (op.name \in {"SortByWeightU64", "SortByWeightU64Normalized"}
        /\ U64LengthMismatch)
        => (op.panic /\ nodes = pre.nodes /\ uweights = pre.uweights)

(***************************************************************************)
(* Properties of the legacy float64 sorters                                *)
(***************************************************************************)
\* C12: with weights that are not all equal, a weight of 0 raises no fault
\* and SortWeighted leaves every item of weight 0 after every item of
\* positive weight (so a single positive-weight item ends first)
C12_ZeroWeightsLast ==
    (SortWeightedReturned /\ SameLengths /\ ~WeightsAllEqual(pre.weights))
        => /\ ~op.panic
           /\ \A i, j \in 1..Len(vv) :
                (FEq(WeightOf(vv[i]), FZero(1))
                    /\ FLess(FZero(1), WeightOf(vv[j]))) => j < i

\* C13: the legacy Sort returns len(nodes) positions, a permutation of all
\* of them, by ascending distance with positions of equal distance in
\* ascending order, and leaves nodes as they were
C13_LegacySortStablePositions ==
    (op.name = "SortU64")
        => /\ Len(res) = Len(pre.nodes)
           /\ {res[k] : k \in 1..Len(res)} = 1..Len(pre.nodes)
           /\ \A k \in 1..(Len(res) - 1) :
                LET dk == distance(pre.nodes[res[k]], hash)
                    dn == distance(pre.nodes[res[k + 1]], hash)
                IN  dk < dn \/ (dk = dn /\ res[k] < res[k + 1])
           /\ nodes = pre.nodes

\* the weighted score of the legacy sorters for a node hash and its weight
LegacyScore(n, w) == FMul(FromUint(MaxUint64 - distance(n, hash)), w)

\* C14: SortByWeight returns a permutation of the caller's node values by
\* descending (2^64-1 - distance) * weight, and the caller's nodes hold the
\* same values after the call as before
C14_SortByWeightPermutes ==
    (op.name = "SortByWeight" /\ ~op.panic
        /\ Len(pre.nodes) = Len(pre.weights))
        => /\ nodes = pre.nodes
           /\ \E p \in PermsOf(Len(pre.nodes)) :
                /\ res = [k \in 1..Len(pre.nodes) |-> pre.nodes[p[k]]]
                /\ \A k \in 1..(Len(pre.nodes) - 1) :
                     ~FLess(LegacyScore(pre.nodes[p[k]], pre.weights[p[k]]),
                            LegacyScore(pre.nodes[p[k + 1]], pre.weights[p[k + 1]]))

\* the items the compatibility tests build from a slice: the identity hash
\* of the element at Go index i is i
WithIndex(slice) == [i \in 1..Len(slice) |-> Item((i - 1) % Mod, slice[i])]

\* C15: for the same identities, weights in [0,1] and target, SortWeighted
\* leaves the items in the order SortSliceByWeightIndex leaves them in
C15_WeightedSameAsLegacy ==
    (op.name = "SortSliceByWeightIndex" /\ ~op.panic /\ ~unstableTies
        /\ Len(pre.vv) = Len(pre.weights))
        => LET g == SortWeighted(WithIndex(pre.vv), pre.weights, hash)
           IN  /\ ~g.panic
               /\ vv = [k \in 1..Len(g.vv) |-> g.vv[k].val]

\* C16: ValidateWeights returns an error exactly when some entry is NaN,
\* above 1.0 or below 0.0; the empty slice and slices within [0.0, 1.0],
\* boundaries included, pass; the weights are never modified
C16_ValidateWeightsRange ==
    (op.name = "ValidateWeights")
        => /\ op.err <=> (\E i \in 1..Len(pre.weights) :
                            pre.weights[i] \in OutOfRangeWeights)
           /\ weights = pre.weights

\* a NaN among in-range weights was rejected
C16_Witness ==
    /\ op.name = "ValidateWeights"
    /\ op.err
    /\ Len(weights) >= 2
    /\ \E i \in 1..Len(weights) : weights[i] = FNaN
    /\ \A i \in 1..Len(weights) : weights[i] \in Weights \cup {FNaN}

(***************************************************************************)
(* The permutation applier: sortByRuleDirect and sortByRuleInverse reorder *)
(* a sequence they reach only through a swap callback.  Positions and the  *)
(* entries of rule count from 1 (Go index + 1).  The walk keeps the slice  *)
(* behind the callback and the visited marker.                             *)
(***************************************************************************)
swapActualMutOverwrite(actual, i, j) == [actual EXCEPT ![i] = actual[j]]

\* the callback of the caller: actual[i], actual[j] = actual[j], actual[i]
swapActual(actual, i, j) ==
    [actual EXCEPT ![i] = actual[j], ![j] = actual[i]]

RECURSIVE directWalk(_, _, _, _)
\* carry the element held at i to its place j, until the cycle closes at i
directWalk(st, i, j, rule0) ==
    IF j = i THEN [st EXCEPT !.done[i] = TRUE]
    ELSE directWalk([slice |-> swapActual(st.slice, i, j),
                     done |-> [st.done EXCEPT ![j] = TRUE]],
                    i, rule0[j], rule0)

RECURSIVE directLoop(_, _, _, _)
directLoop(st, i, l, rule0) ==
    IF i > l THEN st
    ELSE IF st.done[i] THEN directLoop(st, i + 1, l, rule0)
    ELSE directLoop(directWalk(st, i, rule0[i], rule0), i + 1, l, rule0)

\* the caller's sequence after sortByRuleDirect(swap, l, rule)
sortByRuleDirect(actual, l, rule0) ==
    directLoop([slice |-> actual, done |-> [k \in 1..l |-> FALSE]],
               1, l, rule0).slice

RECURSIVE inverseWalk(_, _, _, _)
\* fetch into j the element of rule[j], until rule[j] is where the cycle began
inverseWalk(st, i, j, rule0) ==
    IF rule0[j] = i THEN [st EXCEPT !.done[j] = TRUE]
    ELSE inverseWalk([slice |-> swapActual(st.slice, j, rule0[j]),
                      done |-> [st.done EXCEPT ![j] = TRUE]],
                     i, rule0[j], rule0)

RECURSIVE inverseLoop(_, _, _, _)
inverseLoop(st, i, l, rule0) ==
    IF i > l THEN st
    ELSE IF st.done[i] THEN inverseLoop(st, i + 1, l, rule0)
    ELSE inverseLoop(inverseWalk(st, i, i, rule0), i + 1, l, rule0)

\* the caller's sequence after sortByRuleInverse(swap, l, rule)
sortByRuleInverse(actual, l, rule0) ==
    inverseLoop([slice |-> actual, done |-> [k \in 1..l |-> FALSE]],
                1, l, rule0).slice

\* a caller holding a sequence and a rule that permutes its positions
InitRule ==
    /\ \E n \in 0..MaxRule : vv = Labels(n) /\ rule \in PermsOf(n)
    /\ fNorm = NoNorm /\ srt = NoSorter
    /\ weights = <<>> /\ nodes = <<>> /\ hash = 0
    /\ object = 0 /\ uNorm = NoNorm /\ uweights = <<>> /\ res = <<>>
    /\ op = NoCall
    /\ pre = NoArgs
    /\ prev = NoPrev
    /\ unstableTies = FALSE

\* sortByRuleDirect(swap, len(vv), rule); prev keeps the call before and the
\* sequence that call started from
CallSortByRuleDirect ==
    /\ vv' = sortByRuleDirect(vv, Len(vv), rule)
    /\ op' = [name |-> "sortByRuleDirect", panic |-> FALSE]
    /\ pre' = Args
    /\ prev' = [op |-> op, res |-> pre.vv]
    /\ UNCHANGED <<weights, object, uNorm, nodes, uweights, hash, res,
                   unstableTies, rule, fNorm, srt>>

\* sortByRuleInverse(swap, len(vv), rule)
CallSortByRuleInverse ==
    /\ vv' = sortByRuleInverse(vv, Len(vv), rule)
    /\ op' = [name |-> "sortByRuleInverse", panic |-> FALSE]
    /\ pre' = Args
    /\ prev' = [op |-> op, res |-> pre.vv]
    /\ UNCHANGED <<weights, object, uNorm, nodes, uweights, hash, res,
                   unstableTies, rule, fNorm, srt>>

NextRule == CallSortByRuleDirect \/ CallSortByRuleInverse

SpecRule == InitRule /\ [][NextRule]_vars

\* the rule moves every position and is not its own inverse
RuleIsLongCycle ==
    /\ Len(rule) >= 3
    /\ \A i \in 1..Len(rule) : rule[i] # i /\ rule[rule[i]] # i

\* C17: the direct permutation followed by the inverse one with the same
\* rule, or the inverse followed by the direct, restores the sequence
C17_RoundTrip ==
    ({op.name, prev.op.name} = {"sortByRuleDirect", "sortByRuleInverse"})
        => vv = prev.res

\* a 4-cycle applied directly and then undone by the inverse
C17_Witness ==
    /\ op.name = "sortByRuleInverse"
    /\ prev.op.name = "sortByRuleDirect"
    /\ RuleIsLongCycle
    /\ pre.vv # vv
    /\ vv = prev.res

\* C18: sortByRuleInverse with a permutation rule leaves
\* new[i] = old[rule[i]] at every position i
C18_InverseFetches ==
    (op.name = "sortByRuleInverse")
        => /\ Len(vv) = Len(pre.vv)
           /\ \A i \in 1..Len(vv) : vv[i] = pre.vv[rule[i]]

C18_Witness ==
    /\ op.name = "sortByRuleInverse"
    /\ RuleIsLongCycle
    /\ pre.vv = Labels(Len(rule))
    /\ vv = rule

\* C19: sortByRuleDirect with a permutation rule leaves
\* new[rule[i]] = old[i] for every position i
C19_DirectPlaces ==
    (op.name = "sortByRuleDirect")
        => /\ Len(vv) = Len(pre.vv)
           /\ \A i \in 1..Len(vv) : vv[rule[i]] = pre.vv[i]

C19_Witness ==
    /\ op.name = "sortByRuleDirect"
    /\ RuleIsLongCycle
    /\ pre.vv = Labels(Len(rule))
    /\ vv # rule
    /\ \A i \in 1..Len(rule) : vv[rule[i]] = i

(***************************************************************************)
(* The mixing function on its own                                          *)
(***************************************************************************)
\* a caller holding two words
InitDistance ==
    /\ \E x \in 0..MaxUint64 : nodes = <<x>>
    /\ hash \in 0..MaxUint64
    /\ vv = <<>> /\ weights = <<>>
    /\ object = 0 /\ uNorm = NoNorm /\ uweights = <<>> /\ res = <<>>
    /\ op = NoCall
    /\ pre = NoArgs
    /\ prev = NoPrev
    /\ unstableTies = FALSE
    /\ rule = <<>>
    /\ fNorm = NoNorm /\ srt = NoSorter

\* res := distance(nodes[0], hash)
CallDistance ==
    /\ res' = <<distance(nodes[1], hash)>>
    /\ op' = [name |-> "distance", panic |-> FALSE]
    /\ pre' = Args
    /\ UNCHANGED <<vv, weights, object, uNorm, nodes, uweights, hash, prev,
                   unstableTies, rule, fNorm, srt>>

NextDistance == CallDistance

SpecDistance == InitDistance /\ [][NextDistance]_vars

\* C20: distance(x, y) = distance(y, x) = distance(x XOR y, 0), a word
C20_DistanceSymmetricXor ==
    (op.name = "distance")
        => /\ res[1] \in 0..MaxUint64
           /\ res[1] = distance(hash, nodes[1])
           /\ res[1] = distance(Xor(nodes[1], hash), 0)

\* two different non-zero words whose mixing overflowed the word
C20_Witness ==
    /\ op.name = "distance"
    /\ nodes[1] # hash /\ nodes[1] # 0 /\ hash # 0
    /\ res[1] # Xor(nodes[1], hash)
    /\ Xor(nodes[1], hash) * MixC1 > MaxUint64

(***************************************************************************)
(* The wide divide on its own                                              *)
(***************************************************************************)
\* a caller holding the two words a = uweights[1] and b = uweights[2]
InitDiv ==
    /\ uweights \in [1..2 -> 0..MaxUint64]
    /\ vv = <<>> /\ weights = <<>> /\ nodes = <<>> /\ hash = 0
    /\ object = 0 /\ uNorm = NoNorm /\ res = <<>>
    /\ op = NoCall
    /\ pre = NoArgs
    /\ prev = NoPrev
    /\ unstableTies = FALSE
    /\ rule = <<>>
    /\ fNorm = NoNorm /\ srt = NoSorter

\* q := Div(a, b)
CallDiv ==
    LET r == Div(uweights[1], uweights[2])
    IN  /\ op' = [name |-> "Div", panic |-> r.panic, u |-> r.v]
        /\ pre' = Args
        /\ UNCHANGED <<vv, weights, object, uNorm, nodes, uweights, hash, res,
                       prev, unstableTies, rule, fNorm, srt>>

NextDiv == CallDiv

SpecDiv == InitDiv /\ [][NextDiv]_vars

\* C21: for b > 0, Div(a, b) completes without a fault; for a <= b the
\* result is within one unit of a * MaxUint64 / b, and for a > b it is
\* MaxUint64
C21_DivTotalAndSaturating ==
    (op.name = "Div" /\ pre.uweights[2] > 0)
        => LET a == pre.uweights[1]
               b == pre.uweights[2]
               d == op.u * b - a * MaxUint64
           IN  /\ ~op.panic
               /\ a <= b => (d <= b /\ -d <= b)
               /\ a > b => op.u = MaxUint64

(***************************************************************************)
(* The normalizers on their own: a uint64 normalizer and the float64 one   *)
(* built from the same parameter                                           *)
(***************************************************************************)
\* the parameters normalizers are built from
Params == {0, 1, 2, 3, 5, 10, MaxUint64}

\* what uint64() of a float without a uint64 value yields: 0 on builds
\* that saturate, the top bit alone on builds that return the indefinite
\* integer
ConvOutcomes == {0, Pow2(WordBits - 1)}

\* the parameter the pair was built from is kept in object
InitNorm ==
    /\ \E q \in Params :
         /\ object = q
         /\ \E c \in ConvOutcomes :
              \/ uNorm = NewConstU64(q) /\ fNorm = NewConstF64(FromUint(q))
              \/ uNorm = NewMaxU64(q) /\ fNorm = NewMaxF64(FromUint(q))
              \/ uNorm = NewReverseMinU64(q)
                    /\ fNorm = NewReverseMinF64(FromUint(q))
              \/ q # 0 /\ uNorm = NewSigmoidU64(q)
                    /\ fNorm = NewSigmoidF64(FromUint(q))
              \/ uNorm = NewLogRatioU64(q, c)
                    /\ fNorm = NewLogRatioF64(FromUint(q))
    /\ uweights \in [1..1 -> 0..MaxUint64]
    /\ vv = <<>> /\ weights = <<>> /\ nodes = <<>> /\ hash = 0 /\ res = <<>>
    /\ op = NoCall
    /\ pre = NoArgs
    /\ prev = NoPrev
    /\ unstableTies = FALSE
    /\ rule = <<>>
    /\ srt = NoSorter

\* uRes := uNorm.Normalize(v); fRes := fNorm.Normalize(float64(v))
CallNormalize ==
    LET r == Normalize(uNorm, uweights[1])
    IN  /\ op' = [name |-> "Normalize", panic |-> r.panic, u |-> r.v,
                  f |-> NormalizeF(fNorm, FromUint(uweights[1]))]
        /\ pre' = Args
        /\ UNCHANGED <<vv, weights, object, uNorm, nodes, uweights, hash, res,
                       prev, unstableTies, rule, fNorm, srt>>

NextNorm == CallNormalize

SpecNorm == InitNorm /\ [][NextNorm]_vars

\* the tolerance 0.000001 of the comparison, scaled as the floats are
Delta == FLit(1, 8)

\* |a - b| < Delta
InDelta(a, b) ==
    LET d == FAdd(a, FNeg(b)) IN FLess([d EXCEPT !.sgn = 1], Delta)

\* the inputs the comparison is made on: up to the parameter for LogRatio,
\* Max and Sigmoid, from the parameter up for ReverseMin
InDomain ==
    IF uNorm.kind = "reverseMin" THEN pre.uweights[1] >= object
    ELSE pre.uweights[1] <= object

\* C22: for LogRatio, Max, ReverseMin and Sigmoid built from the same
\* parameter and every input of the domain, the fixed-point result taken
\* to a float is within the tolerance of the float result
C22_FixedAgreesWithFloat ==
    (op.name = "Normalize" /\ uNorm.kind # "const" /\ InDomain)
        => /\ ~op.panic
           /\ InDelta(ToFloat(op.u), op.f)

\* C23: the fixed-point Sigmoid completes for every input, returns about
\* half of MaxUint64 at w = scale, never decreases as w grows, and beyond
\* the scale returns strictly more than at the scale
C23_SigmoidTotalMonotonic ==
    (op.name = "Normalize" /\ uNorm.kind = "sigmoid")
        => LET w == pre.uweights[1]
               atScale == Normalize(uNorm, object)
           IN  /\ ~op.panic
               /\ w = object =>
                    (op.u - MaxUint64 \div 2) \in {-1, 0, 1}
               /\ \A w2 \in 0..w :
                    LET r2 == Normalize(uNorm, w2)
                    IN  ~r2.panic /\ r2.v <= op.u
               /\ w > object => op.u > atScale.v

\* C24: degenerate inputs give 0 and no fault: Max built with 0 for every
\* input, ReverseMin for input 0, LogRatio for input 0 or built with
\* max <= 1
C24_DegenerateInputsGiveZero ==
    (op.name = "Normalize"
        /\ \/ (uNorm.kind = "max" /\ object = 0)
           \/ (uNorm.kind = "reverseMin" /\ pre.uweights[1] = 0)
           \/ (uNorm.kind = "logRatio"
                 /\ (pre.uweights[1] = 0 \/ object <= 1)))
        => (~op.panic /\ op.u = 0)

(***************************************************************************)
(* Properties of the adapters over slices of values                        *)
(***************************************************************************)
\* C25: given a value that is no slice, an empty slice, or a slice whose
\* element type is neither built in nor a Hasher (a named slice type
\* included), SortSliceByValue returns normally and leaves the order as is
C25_UnrankableInputNoPanic ==
    (op.name = "SortSliceByValue"
        /\ \/ pre.vv.t \in {"int", "[]unknown", "Uint32Slice"}
           \/ Len(pre.vv.v) = 0)
        => (~op.panic /\ vv = pre.vv)

\* C26: with len(weights) different from the length of the slice,
\* SortSliceByWeightIndex and SortSliceByWeightValue neither reorder the
\* slice nor fault
C26_WeightMismatchNoOp ==
    /\ (op.name = "SortSliceByWeightIndex" /\ Len(pre.vv) # Len(pre.weights))
         => (~op.panic /\ vv = pre.vv)
    /\ (op.name = "SortSliceByWeightValue" /\ pre.vv.t # "int"
          /\ Len(pre.vv.v) # Len(pre.weights))
         => (~op.panic /\ vv = pre.vv)

(***************************************************************************)
(* The mixing function against a fixed target                              *)
(***************************************************************************)
\* a caller measuring any identity hash against one of a few targets
InitDistanceToTarget ==
    /\ \E x \in 0..MaxUint64 : nodes = <<x>>
    /\ hash \in Targets \cup {0, MaxUint64}
    /\ vv = <<>> /\ weights = <<>>
    /\ object = 0 /\ uNorm = NoNorm /\ uweights = <<>> /\ res = <<>>
    /\ op = NoCall
    /\ pre = NoArgs
    /\ prev = NoPrev
    /\ unstableTies = FALSE
    /\ rule = <<>>
    /\ fNorm = NoNorm /\ srt = NoSorter

SpecDistanceToTarget == InitDistanceToTarget /\ [][NextDistance]_vars

\* C27: for a fixed target hash, no other identity hash has the distance
\* this one has: x -> distance(x, hash) is injective on the words
C27_DistanceInjective ==
    (op.name = "distance")
        => \A x2 \in 0..MaxUint64 :
             distance(x2, hash) = res[1] => x2 = nodes[1]

\* the distance of an item hash to a target, different from both
C27_Witness ==
    /\ op.name = "distance"
    /\ hash \in Targets
    /\ nodes[1] \in Hashes \ {hash}
    /\ res[1] \notin {0, nodes[1], hash}

(***************************************************************************)
(* sort.Sort on a legacy sorter, one swap at a time.  srt.s is the sorter, *)
(* srt.i and srt.j the positions of the insertion sort (i = 1: not yet     *)
(* begun), vv the caller's slice, pre its arguments at the call.           *)
(***************************************************************************)
\* the sorter sortByWeight or sortByDistance has just built
SorterFor(byIndex, nodes0, slice, weights0, h) ==
    [s |-> newSorter(Len(slice), byIndex, nodes0, h, slice, weights0,
                     ~allSameF64(weights0)),
     i |-> 1, j |-> 1, byIndex |-> byIndex]

\* a call of SortSliceByWeightIndex on a slice, or of the sorters over node
\* hashes, has built its sorter and is about to run sort.Sort
InitSorter ==
    /\ \/ /\ vv \in {Labels(k) : k \in 0..MaxLen}
          /\ nodes = <<>>
          /\ weights \in SeqsUpTo(Weights, MaxLen)
          /\ hash \in Targets
          /\ srt = SorterFor(TRUE, NilNodes, vv, weights, hash)
       \/ /\ nodes \in SeqsUpTo(Hashes, MaxNodes)
          /\ vv = Labels(Len(nodes))
          /\ weights \in SeqsUpTo(Weights, MaxLen)
          /\ hash \in Targets
          /\ srt = SorterFor(FALSE, SomeNodes(nodes), vv, weights, hash)
    /\ op = [name |-> "sort.Sort", panic |-> FALSE]
    /\ object = 0 /\ uNorm = NoNorm /\ uweights = <<>> /\ res = <<>>
    /\ prev = NoPrev
    /\ unstableTies \in BOOLEAN
    /\ rule = <<>>
    /\ fNorm = NoNorm
    /\ pre = Args

\* the sort begins; a build that does not keep ties first moves elements
\* past their equals
SorterBegin ==
    /\ srt.i = 1
    /\ LET s1 == IF unstableTies THEN reverseRange(srt.s, 1, Len(srt.s.ind))
                 ELSE srt.s
       IN  /\ srt' = [srt EXCEPT !.s = s1, !.i = 2, !.j = 2]
           /\ vv' = s1.slice
    /\ UNCHANGED <<weights, object, uNorm, nodes, uweights, hash, res, op, pre,
                   prev, unstableTies, rule, fNorm>>

\* data.Less(j, j-1) holds: data.Swap(j, j-1)
SorterSwapDown ==
    /\ srt.i >= 2 /\ srt.i <= Len(srt.s.ind) /\ srt.j > 1 /\ ~srt.s.panic
    /\ ~sorterFault(srt.s, srt.j, srt.j - 1)
    /\ sorterLess(srt.s, srt.j, srt.j - 1)
    /\ LET s1 == sorterSwap(srt.s, srt.j, srt.j - 1)
       IN  /\ srt' = [srt EXCEPT !.s = s1, !.j = srt.j - 1]
           /\ vv' = s1.slice
    /\ UNCHANGED <<weights, object, uNorm, nodes, uweights, hash, res, op, pre,
                   prev, unstableTies, rule, fNorm>>

\* the inner loop ends: the next element is taken
SorterAdvance ==
    /\ srt.i >= 2 /\ srt.i <= Len(srt.s.ind) /\ ~srt.s.panic
    /\ IF srt.j <= 1
       THEN TRUE
       ELSE (~sorterFault(srt.s, srt.j, srt.j - 1)
               /\ ~sorterLess(srt.s, srt.j, srt.j - 1))
    /\ srt' = [srt EXCEPT !.i = srt.i + 1, !.j = srt.i + 1]
    /\ UNCHANGED <<vv, weights, object, uNorm, nodes, uweights, hash, res, op,
                   pre, prev, unstableTies, rule, fNorm>>

\* the less closure indexes weights out of range: the call panics
SorterFaults ==
    /\ srt.i >= 2 /\ srt.i <= Len(srt.s.ind) /\ srt.j > 1 /\ ~srt.s.panic
    /\ sorterFault(srt.s, srt.j, srt.j - 1)
    /\ srt' = [srt EXCEPT !.s.panic = TRUE]
    /\ op' = [op EXCEPT !.panic = TRUE]
    /\ UNCHANGED <<vv, weights, object, uNorm, nodes, uweights, hash, res, pre,
                   prev, unstableTies, rule, fNorm>>

NextSorter == SorterBegin \/ SorterSwapDown \/ SorterAdvance \/ SorterFaults

SpecSorter == InitSorter /\ [][NextSorter]_vars

\* the distance newSorter computed for the element the caller passed at k
OriginalDist(k) ==
    getDistance(srt.byIndex,
                k,
                IF srt.byIndex THEN NilNodes ELSE SomeNodes(pre.nodes),
                hash)

\* the score the less closure is meant to compare for the element now at
\* position i, found through the element itself
ScoreNowAt(i) ==
    LET k == PosIn(pre.vv, vv[i])
    IN  FMul(FromUint(MaxUint64 - OriginalDist(k)), pre.weights[k])

\* C28: during sort.Sort ind is a permutation of the positions, ind[i] is
\* the original position of the element now at i, less compares the
\* elements now at i and j, and dist and weights stay as built
C28_IndTracksSlice ==
    LET s == srt.s
        l == Len(pre.vv)
    IN  /\ Len(s.ind) = l
        /\ {s.ind[i] : i \in 1..l} = 1..l
        /\ s.slice = vv
        /\ \A i \in 1..l : vv[i] = pre.vv[s.ind[i]]
        /\ s.dist = [k \in 1..l |-> OriginalDist(k)]
        /\ s.weights = pre.weights
        /\ weights = pre.weights
        /\ \A i, j \in 1..l :
             IF s.byWeight
             THEN sorterFault(s, i, j)
                    \/ (sorterLess(s, i, j)
                          <=> FLess(ScoreNowAt(j), ScoreNowAt(i)))
             ELSE sorterLess(s, i, j)
                    <=> (OriginalDist(PosIn(pre.vv, vv[i]))
                           < OriginalDist(PosIn(pre.vv, vv[j])))

\* a weighted sort of three elements that has moved some of them
C28_Witness ==
    /\ srt.i >= 3
    /\ srt.s.byWeight
    /\ ~srt.s.panic
    /\ Len(pre.weights) = Len(vv)
    /\ vv # pre.vv
    /\ srt.s.ind # Labels(Len(vv))

=============================================================================
